---------------------------- MODULE Spec2Model ----------------------------
(***************************************************************************)
(* A model of controller.py: the ShardHandler that splits a text into      *)
(* numbered shard files under data/, mirrors them in replication levels    *)
(* and records every shard's boundaries in mapping.json.                   *)
(*                                                                         *)
(* A blob or mapping key is a pair <<id, level>>: <<3, 0>> is the primary  *)
(* "3" (file data/3.txt), <<3, 1>> the replica "3-1" (file data/3-1.txt).  *)
(* The code sorts keys and file names as strings; KeyStr and FileName give *)
(* the character codes of those strings, so the sort is the code's.        *)
(***************************************************************************)
EXTENDS Integers, Sequences, FiniteSets, TLC

VARIABLES
    text,                \* the text handed to build_shards (never changed)
    data_dir,            \* whether the data/ directory exists
    files,               \* the blobs in data/: blob name -> content
    mapfile,             \* the content of mapping.json ("absent" = empty)
    mapping,             \* ShardHandler.mapping
    last_char_position,  \* ShardHandler.last_char_position
    replication_level,   \* ShardHandler.replication_level
    op,                  \* the last call made
    result,              \* how it ended: NoErr, or the exception raised
    missing_before,      \* primary blobs that were missing when it began
    arg,                 \* the count or index of the last split or lookup call
    returned,            \* what that call returned (None for the other calls)
    resync               \* the last call was a sync_replication() made right
                         \* after a sync_replication() that returned

vars == <<text, data_dir, files, mapfile, mapping, last_char_position,
          replication_level, op, result, missing_before, arg, returned,
          resync>>

(***************************************************************************)
(* Bounds of the exploration.                                              *)
(***************************************************************************)
MaxShards == 12          \* add_shard is explored up to this many shards
MaxBuildCount == 10      \* build_shards(count, ...) with count in 1..this
MaxLevel == 2            \* add_replication is explored up to this level
DmgMaxShards == 2        \* the same three bounds where blobs get deleted
DmgMaxBuildCount == 2    \* or calls are cut short
DmgMaxLevel == 1
MaxMissing == 2          \* blobs of mapping.json that may be missing at once
LkMaxLen == 4            \* the texts that are split and looked up: up to this long
LkMaxCount == 3          \* split into up to this many slices,
LkMaxNegCount == 2       \* or asked with a count down to minus this

\* The texts build_shards is given: empty, shorter than the shard counts,
\* and one of distinct characters that is longer than ten shards.
Texts ==
    { <<>>,
      <<"t", "o", " ", "b", "e", ".">>,
      <<"a", "b", "c", "d", "e", "f", "g", "h", "i", "j", "k", "l">> }

DmgTexts ==
    { <<"a", "b", "c", "d", "e">> }

\* Every text of up to LkMaxLen letters, spaces and periods.
LookupAlphabet == {"a", "b", " ", "."}

LookupTexts == UNION {[1..n -> LookupAlphabet] : n \in 0..LkMaxLen}

NoErr == "ok"

\* Python's None
None == <<>>

-----------------------------------------------------------------------------
(* Python's str(int), string comparison and sorted(). *)

Min(a, b) == IF a < b THEN a ELSE b

RECURSIVE Digits(_)
\* str(n) for n >= 0, as character codes ('0' is 48).
Digits(n) == IF n < 10 THEN <<48 + n>> ELSE Digits(n \div 10) \o <<48 + (n % 10)>>

\* The mapping key of a blob: "3" or "3-1" ('-' is 45).
KeyStr(k) == IF k[2] = 0 THEN Digits(k[1]) ELSE Digits(k[1]) \o <<45>> \o Digits(k[2])

\* Its file name in data/: the key and ".txt".
FileName(k) == KeyStr(k) \o <<46, 116, 120, 116>>

RECURSIVE StrLess(_, _)
\* Python's s < t on strings.
StrLess(s, t) ==
    IF t = <<>> THEN FALSE
    ELSE IF s = <<>> THEN TRUE
    ELSE IF Head(s) # Head(t) THEN Head(s) < Head(t)
    ELSE StrLess(Tail(s), Tail(t))

\* The string a sort compares: the file name (os.listdir entries) or the key.
SortStr(k, asFile) == IF asFile THEN FileName(k) ELSE KeyStr(k)

RECURSIVE SortedBy(_, _)
\* sorted(S): the blobs of S in the order of their strings.
SortedBy(S, asFile) ==
    IF S = {} THEN <<>>
    ELSE LET m == CHOOSE x \in S :
                    \A y \in S \ {x} : StrLess(SortStr(x, asFile), SortStr(y, asFile))
         IN  <<m>> \o SortedBy(S \ {m}, asFile)

RECURSIVE Concat(_)
\* ''.join(list)
Concat(ss) == IF ss = <<>> THEN <<>> ELSE Head(ss) \o Concat(Tail(ss))

\* max of a non-empty set of integers
Max(S) == CHOOSE x \in S : \A y \in S : y <= x

\* dict/file-system updates
Put(f, k, v) == [x \in (DOMAIN f) \cup {k} |-> IF x = k THEN v ELSE f[x]]
Del(f, k) == [x \in (DOMAIN f) \ {k} |-> f[x]]
Empty == [x \in {} |-> 0]

IsPrimary(k) == k[2] = 0
Primaries(f) == {k \in DOMAIN f : IsPrimary(k)}
Replicas(f) == {k \in DOMAIN f : ~IsPrimary(k)}

-----------------------------------------------------------------------------
(***************************************************************************)
(* A world is the handler's fields and the disk, threaded through the      *)
(* steps of one call.  err is the exception that ended the call (NoErr     *)
(* while it runs): every step leaves a world with an exception alone.      *)
(* With rec set, trace collects the disk after each single write, copy,    *)
(* removal or mapping.json write, which is where a call can be cut short.  *)
(***************************************************************************)
Disk(w) == [files |-> w.files, mapfile |-> w.mapfile]

Logged(w) == IF w.rec THEN [w EXCEPT !.trace = Append(@, Disk(w))] ELSE w

Raise(w, e) == IF w.err # NoErr THEN w ELSE [w EXCEPT !.err = e]

\* os.mkdir("data") when it is missing; open(f"data/{num}.txt", 'w').write(data)
write_file(w, k, data) ==
    IF w.err # NoErr THEN w
    ELSE Logged([w EXCEPT !.files = Put(@, k, data), !.has_dir = TRUE])

\* shutil.copyfile(source, destination)
copyfile(w, src, dst) ==
    IF w.err # NoErr THEN w
    ELSE IF src \notin DOMAIN w.files THEN Raise(w, "FileNotFoundError")
    ELSE Logged([w EXCEPT !.files = Put(@, dst, w.files[src])])

\* os.remove(path)
os_remove(w, k) ==
    IF w.err # NoErr THEN w
    ELSE IF k \notin DOMAIN w.files THEN Raise(w, "FileNotFoundError")
    ELSE Logged([w EXCEPT !.files = Del(@, k)])

write_map(w) ==
    IF w.err # NoErr THEN w
    ELSE Logged([w EXCEPT !.mapfile = w.mapping])

load_map(w) ==
    IF w.err # NoErr THEN w
    ELSE [w EXCEPT !.mapping = w.mapfile]

find_highest_replication_level(m) ==
    LET levels == {k[2] : k \in Replicas(m)}
    IN  IF levels = {} THEN 0 ELSE Max(levels)

get_shard_ids(m) == SortedBy(Primaries(m), FALSE)

get_replication_ids(m) == SortedBy(Replicas(m), FALSE)

-----------------------------------------------------------------------------
(* The splitter. *)

\* Python's a // b for a >= 0 and b # 0 (the quotient rounds down).
PyFloorDiv(a, b) == IF b > 0 THEN a \div b ELSE -((a + (-b) - 1) \div (-b))

\* data[a:b] for 0 <= a <= b
PySlice(data, a, b) == SubSeq(data, Min(a, Len(data)) + 1, Min(b, Len(data)))

\* Faulty variant: the odd characters after the last full slice are dropped
generate_sharded_data_without_remainder(count, data) ==
    LET splicenum == PyFloorDiv(Len(data), count)
    IN  [z \in 1..count |-> PySlice(data, splicenum * (z - 1), splicenum * z)]

generate_sharded_data(count, data) ==
    LET splicenum == PyFloorDiv(Len(data), count)
        rem == Len(data) - splicenum * count
        slices == [z \in 1..count |->
                      PySlice(data, splicenum * (z - 1), splicenum * z)]
    IN  IF rem > 0
        THEN [slices EXCEPT ![count] =
                  @ \o SubSeq(data, Len(data) - rem + 1, Len(data))]
        ELSE slices

write_shard_mapping(w, num, data) ==
    IF w.err # NoErr THEN w
    ELSE LET pos == IF num = 0 THEN 0 ELSE w.lcp
             entry == [start |-> IF pos = 0 THEN pos ELSE pos + 1,
                       end |-> pos + Len(data)]
         IN  [w EXCEPT !.mapping = Put(@, <<num, 0>>, entry),
                       !.lcp = pos + Len(data)]

write_shard(w, num, data) ==
    write_shard_mapping(write_file(w, <<num, 0>>, data), num, data)

RECURSIVE write_shards(_, _, _)
\* for num, d in enumerate(spliced_data): self._write_shard(num, d)
write_shards(w, spliced_data, num) ==
    IF num >= Len(spliced_data) THEN w
    ELSE write_shards(write_shard(w, num, spliced_data[num + 1]),
                      spliced_data, num + 1)

\* [err, data]: the shard files read in the order of get_shard_ids().
load_data_from_shards(w) ==
    LET ids == get_shard_ids(w.mapping)
    IN  IF \E i \in 1..Len(ids) : ids[i] \notin DOMAIN w.files
        THEN [err |-> "FileNotFoundError", data |-> <<>>]
        ELSE [err |-> NoErr,
              data |-> Concat([i \in 1..Len(ids) |-> w.files[ids[i]]])]

-----------------------------------------------------------------------------
(* The consistency syncer. *)

primary_files_okay(w) ==
    LET primary_keys == get_shard_ids(w.mapping)
        primary_files == SortedBy(Primaries(w.files), TRUE)
        n == Min(Len(primary_files), Len(primary_keys))
    IN  /\ \A i \in 1..n : Digits(primary_files[i][1]) = KeyStr(primary_keys[i])
        /\ Len(primary_files) = Len(primary_keys)

RECURSIVE LevelsInOrder(_, _)
\* The keys of create_replication_dict(), in the order a dict keeps them:
\* each level where it first occurs among the sorted replica keys.
LevelsInOrder(keys, seen) ==
    IF keys = <<>> THEN <<>>
    ELSE IF Head(keys)[2] \in seen THEN LevelsInOrder(Tail(keys), seen)
    ELSE <<Head(keys)[2]>> \o LevelsInOrder(Tail(keys), seen \cup {Head(keys)[2]})

\* create_replication_dict()[level]
LevelKeys(m, level) ==
    SelectSeq(get_replication_ids(m), LAMBDA k : k[2] = level)

\* Faulty variant: the comparison as if the level were parsed out of the file name
int_eq_str_parsed(n, s) == Digits(n) \o <<46, 116, 120, 116>> = s

\* Python's ==  between an int and a str: never equal.  The code compares
\* the int level with filename.split('-')[1], a str such as "1.txt".
int_eq_str(n, s) == FALSE

rep_level_has_same_keys(rep_keys, primary_keys, level, fs) ==
    IF Len(rep_keys) # Len(primary_keys) THEN FALSE
    ELSE IF \E i \in 1..Len(rep_keys) :
                Digits(rep_keys[i][1]) # KeyStr(primary_keys[i]) THEN FALSE
    ELSE LET level_files ==
                 {f \in Replicas(fs) :
                     int_eq_str(level, Digits(f[2]) \o <<46, 116, 120, 116>>)}
         IN  Cardinality(level_files) = Len(primary_keys)

RECURSIVE refresh_replica_keys(_, _)
\* for key in self.get_replication_ids():
\*     self.mapping[key] = self.mapping[key.split('-')[0]]
refresh_replica_keys(w, keys) ==
    IF w.err # NoErr \/ keys = <<>> THEN w
    ELSE LET key == Head(keys)
             key_name == <<key[1], 0>>
         IN  IF key_name \notin DOMAIN w.mapping THEN Raise(w, "KeyError")
             ELSE refresh_replica_keys(
                      [w EXCEPT !.mapping = Put(@, key, w.mapping[key_name])],
                      Tail(keys))

RECURSIVE regenerate_level_entries_only(_, _, _)
\* Faulty variant: the level's entries are rewritten but its blobs are not copied
regenerate_level_entries_only(w, primary_keys, level) ==
    IF w.err # NoErr \/ primary_keys = <<>> THEN w
    ELSE LET pk == Head(primary_keys)
         IN  regenerate_level_entries_only(
                 [w EXCEPT !.mapping = Put(@, <<pk[1], level>>, w.mapping[pk])],
                 Tail(primary_keys), level)

RECURSIVE regenerate_level(_, _, _)
\* for primary_key in primary_keys: copy its entry and its blob to the level
regenerate_level(w, primary_keys, level) ==
    IF w.err # NoErr \/ primary_keys = <<>> THEN w
    ELSE LET pk == Head(primary_keys)
             w1 == [w EXCEPT !.mapping = Put(@, <<pk[1], level>>, w.mapping[pk])]
         IN  regenerate_level(copyfile(w1, pk, <<pk[1], level>>),
                              Tail(primary_keys), level)

RECURSIVE reconcile_levels(_, _, _, _)
\* for level, keys in self.create_replication_dict().items(): ...
reconcile_levels(w, levels, m, primary_keys) ==
    IF w.err # NoErr \/ levels = <<>> THEN w
    ELSE LET level == Head(levels)
             same == rep_level_has_same_keys(LevelKeys(m, level), primary_keys,
                                             level, w.files)
         IN  reconcile_levels(
                 IF same THEN w ELSE regenerate_level(w, primary_keys, level),
                 Tail(levels), m, primary_keys)

update_replicated_levels(w) ==
    IF w.err # NoErr THEN w
    ELSE LET w1 == refresh_replica_keys(w, get_replication_ids(w.mapping))
             primary_keys == get_shard_ids(w1.mapping)
             levels == LevelsInOrder(get_replication_ids(w1.mapping), {})
         IN  write_map(reconcile_levels(w1, levels, w1.mapping, primary_keys))

\* The orders os.listdir can give the blobs of S.
Listings(S) ==
    LET n == Cardinality(S)
    IN  {p \in [1..n -> S] : \A i, j \in 1..n : i # j => p[i] # p[j]}

RECURSIVE restore_positions(_, _, _, _, _)
\* for i, file in enumerate(primary_files): when the file at position i is
\* not i.txt, the first listed replica of shard i is copied to i.txt.  W is
\* the set of worlds the listing orders so far lead to; with several
\* replicas of shard i the first listed is any but the last listed blob.
restore_positions(W, primary_files, i, other_files, last) ==
    IF i >= Len(primary_files) THEN W
    ELSE LET of_i == {r \in other_files : r[1] = i}
             firsts == IF Cardinality(of_i) > 1 THEN of_i \ {last} ELSE of_i
         IN  IF primary_files[i + 1][1] = i \/ firsts = {}
             THEN restore_positions(W, primary_files, i + 1, other_files, last)
             ELSE restore_positions(
                      {copyfile(w, r, <<i, 0>>) : w \in W, r \in firsts},
                      primary_files, i + 1, other_files, last)

\* One pass of the while loop of restore_primary_files, for every order
\* os.listdir can return: the worlds it can leave.
restore_pass(w) ==
    LET primary_set == Primaries(w.files)
        other_files == Replicas(w.files)
    IN  IF other_files = {} THEN {Raise(w, "ValueError")}
        ELSE LET other_files_num == Max({r[1] : r \in other_files})
                 copy_last ==
                     \/ primary_set = {}
                     \/ Max({k[1] : k \in primary_set}) < other_files_num
             IN  UNION {
                   restore_positions(
                       {IF copy_last
                        THEN copyfile(w, last, <<other_files_num, 0>>)
                        ELSE w},
                       primary_files, 0, other_files, last) :
                   <<last, primary_files>> \in
                       other_files \X Listings(primary_set) }

RECURSIVE restore_loop(_, _)
\* while not self.primary_files_okay() and x > 0: ...; then the final check
restore_loop(w, x) ==
    IF w.err # NoErr THEN {w}
    ELSE IF ~primary_files_okay(w) /\ x > 0
    THEN UNION {restore_loop(w1, x - 1) : w1 \in restore_pass(w)}
    ELSE IF ~primary_files_okay(w)
    THEN {Raise(w, "Missing files cannot be recoved")}
    ELSE {w}

\* Faulty variant: a retry budget of one pass
restore_primary_files_one_pass(w) == restore_loop(w, 1)

restore_primary_files(w) == restore_loop(w, Cardinality(DOMAIN w.files))

\* Faulty variant: a call that finds the primaries damaged makes one healing
\* pass and leaves the rest to the next call
sync_replication_one_pass_per_call(w) ==
    IF w.err # NoErr THEN {w}
    ELSE IF ~w.has_dir THEN {Raise(w, "FileNotFoundError")}
    ELSE IF ~primary_files_okay(w) THEN restore_pass(w)
    ELSE {update_replicated_levels(w)}

\* The worlds sync_replication() can leave.
sync_replication(w) ==
    IF w.err # NoErr THEN {w}
    ELSE IF ~w.has_dir THEN {Raise(w, "FileNotFoundError")}  \* os.listdir
    ELSE {update_replicated_levels(w1) :
             w1 \in IF ~primary_files_okay(w)
                    THEN restore_primary_files(w)
                    ELSE {w}}

-----------------------------------------------------------------------------
(* The operations.  Each gives the set of worlds the call can end in. *)

Advisory == "Cannot build shard setup -- sharding already exists."

\* Faulty variant: the guard of build_shards dropped
sharding_exists_never(m) == FALSE

\* if self.mapping != {}
sharding_exists(m) == m # Empty

build_shards(w, count, data) ==
    IF sharding_exists(w.mapping) THEN {[w EXCEPT !.ret = Advisory]}
    ELSE IF count = 0 THEN {Raise(w, "ZeroDivisionError")}  \* divmod(., 0)
    ELSE {write_map(write_shards(w, generate_sharded_data(count, data), 0))}

\* Faulty variant: the new count without the compensation for zero indexing
add_new_shard_num_uncompensated(keys) == Max(keys) + 1

\* new_shard_num of add_shard ("why 2? ... compensate for zero indexing")
add_new_shard_num(keys) == Max(keys) + 2

\* add_shard between its two sync_replication() calls
add_shard_body(w) ==
    IF w.err # NoErr THEN w
    ELSE LET w1 == load_map(w)
             loaded == load_data_from_shards(w1)
             keys == {k[1] : k \in Primaries(w1.mapping)}
         IN  IF loaded.err # NoErr THEN Raise(w1, loaded.err)
             ELSE IF keys = {} THEN Raise(w1, "ValueError")  \* max([])
             ELSE LET new_shard_num == add_new_shard_num(keys)
                      spliced_data ==
                          generate_sharded_data(new_shard_num, loaded.data)
                  IN  write_map(write_shards(w1, spliced_data, 0))

add_shard(w) ==
    UNION {sync_replication(add_shard_body(w1)) : w1 \in sync_replication(w)}

RECURSIVE remove_files(_, _)
remove_files(w, names) ==
    IF names = <<>> THEN w
    ELSE remove_files(os_remove(w, Head(names)), Tail(names))

\* Faulty variant: refuses only when no shard is left
is_last_shard_when_none(keys) == Cardinality(keys) = 0

\* if len(keys) == 1: raise Exception('Cannot remove last shard')
is_last_shard(keys) == Cardinality(keys) = 1

\* Faulty variant: only the primary file of the dropped shard is removed
is_dropped_file_primary_only(k, new_shard_num) ==
    k[1] = new_shard_num /\ IsPrimary(k)

\* str(new_shard_num) == filename.split('.')[0]  (or .split('-')[0])
is_dropped_file(k, new_shard_num) == k[1] = new_shard_num

\* remove_shard between its two sync_replication() calls; the files of the
\* dropped shard are removed in the order os.listdir gives them.
remove_shard_body(w) ==
    IF w.err # NoErr THEN {w}
    ELSE LET w1 == load_map(w)
             loaded == load_data_from_shards(w1)
             keys == {k[1] : k \in Primaries(w1.mapping)}
         IN  IF loaded.err # NoErr THEN {Raise(w1, loaded.err)}
             ELSE IF is_last_shard(keys)
             THEN {Raise(w1, "Cannot remove last shard")}
             ELSE IF keys = {} THEN {Raise(w1, "ValueError")}  \* max([])
             ELSE IF Max(keys) = 0
             THEN {Raise(w1, "ZeroDivisionError")}  \* divmod(., 0)
             ELSE LET new_shard_num == Max(keys)
                      spliced_data ==
                          generate_sharded_data(new_shard_num, loaded.data)
                      doomed == {k \in DOMAIN w1.files :
                                    is_dropped_file(k, new_shard_num)}
                      kept == {k \in DOMAIN w1.mapping : k[1] # new_shard_num}
                  IN  { LET w2 == remove_files(w1, order)
                            w3 == [w2 EXCEPT !.mapping =
                                      [k \in kept |-> w2.mapping[k]]]
                        IN  write_map(write_shards(w3, spliced_data, 0)) :
                        order \in Listings(doomed) }

remove_shard(w) ==
    UNION {sync_replication(w2) :
              w2 \in UNION {remove_shard_body(w1) : w1 \in sync_replication(w)}}

RECURSIVE copy_originals(_, _, _)
\* for i, file in enumerate(originals): copyfile(file, f'{i}-{level}.txt')
copy_originals(w, originals, i) ==
    IF i >= Len(originals) THEN w
    ELSE copy_originals(copyfile(w, originals[i + 1], <<i, w.rl>>),
                        originals, i + 1)

RECURSIVE map_originals(_, _, _)
\* for i, key in enumerate(keys): mapping[f'{i}-{level}'] = mapping[key]
map_originals(w, keys, i) ==
    IF w.err # NoErr \/ i >= Len(keys) THEN w
    ELSE map_originals(
             [w EXCEPT !.mapping = Put(@, <<i, w.rl>>, w.mapping[keys[i + 1]])],
             keys, i + 1)

add_replication_body(w) ==
    IF w.err # NoErr THEN w
    ELSE LET w1 == [w EXCEPT !.rl = @ + 1]
             originals == SortedBy(Primaries(w1.files), TRUE)
             w2 == copy_originals(w1, originals, 0)
         IN  write_map(map_originals(w2, get_shard_ids(w2.mapping), 0))

add_replication(w) ==
    UNION {sync_replication(add_replication_body(w1)) :
              w1 \in sync_replication(w)}

RECURSIVE remove_backups(_, _)
\* for key in backup_keys: self.mapping.pop(key); os.remove(...)
remove_backups(w, backup_keys) ==
    IF w.err # NoErr \/ backup_keys = <<>> THEN w
    ELSE LET key == Head(backup_keys)
             w1 == [w EXCEPT !.mapping = Del(@, key)]
         IN  remove_backups(os_remove(w1, key), Tail(backup_keys))

\* Faulty variant: removes the levels from the new replication level on
is_backup_key_inclusive(key, level) == key[2] >= level

\* int(key.split('-')[1]) > self.replication_level
is_backup_key(key, level) == key[2] > level

\* Faulty variant: refuses only below level 0
no_levels_left_below_zero(level) == level < 0

\* if self.replication_level == 0: raise Exception(...)
no_levels_left(level) == level = 0

remove_replication_body(w) ==
    IF w.err # NoErr THEN w
    ELSE IF no_levels_left(w.rl) THEN Raise(w, "No replication levels to remove.")
    ELSE LET w1 == [w EXCEPT !.rl = @ - 1]
             backup_keys == SelectSeq(get_replication_ids(w1.mapping),
                                      LAMBDA key : is_backup_key(key, w1.rl))
         IN  write_map(remove_backups(w1, backup_keys))

remove_replication(w) ==
    UNION {sync_replication(remove_replication_body(w1)) :
              w1 \in sync_replication(w)}

-----------------------------------------------------------------------------
(* The lookup engine.  A text is a sequence of one-character strings. *)

\* the characters of ' ,.?!";'
Punctuation == {" ", ",", ".", "?", "!", "\"", ";"}

RECURSIVE skip_punctuation(_, _)
\* while start_char in ' ,.?!";': new_index += 1; start_char = text[new_index]
\* The index (from 0) the loop stops at, or -1 when text[new_index] raises
\* IndexError.
skip_punctuation(t, new_index) ==
    IF new_index >= Len(t) THEN -1
    ELSE IF t[new_index + 1] \in Punctuation THEN skip_punctuation(t, new_index + 1)
    ELSE new_index

RECURSIVE expand_before(_, _)
\* while before_index != 0 and text[before_index] != ' ': before_index -= 1
expand_before(t, before_index) ==
    IF before_index # 0 /\ t[before_index + 1] # " "
    THEN expand_before(t, before_index - 1)
    ELSE before_index

RECURSIVE expand_after(_, _)
\* while after_index != len(text) - 1 and text[after_index] != ' ': ... += 1
expand_after(t, after_index) ==
    IF after_index # Len(t) - 1 /\ t[after_index + 1] # " "
    THEN expand_after(t, after_index + 1)
    ELSE after_index

\* [err, string] of from_previous_file: the characters after the last space.
\* Without a space the index runs below 0, where Python reads from the end
\* again, and on to IndexError; so does text[-1] of an empty file.
from_previous_file(fs, k) ==
    IF k \notin DOMAIN fs THEN [err |-> "FileNotFoundError", string |-> <<>>]
    ELSE LET t == fs[k]
             spaces == {i \in 1..Len(t) : t[i] = " "}
         IN  IF spaces = {} THEN [err |-> "IndexError", string |-> <<>>]
             ELSE [err |-> NoErr, string |-> SubSeq(t, Max(spaces) + 1, Len(t))]

\* [err, string] of from_following_file: the characters before the first
\* space; without a space the index runs off the end (IndexError).
from_following_file(fs, k) ==
    IF k \notin DOMAIN fs THEN [err |-> "FileNotFoundError", string |-> <<>>]
    ELSE LET t == fs[k]
             spaces == {i \in 1..Len(t) : t[i] = " "}
             first == CHOOSE i \in spaces : \A j \in spaces : i <= j
         IN  IF spaces = {} THEN [err |-> "IndexError", string |-> <<>>]
             ELSE [err |-> NoErr, string |-> SubSeq(t, 1, first - 1)]

RECURSIVE lstrip(_)
lstrip(t) ==
    IF t # <<>> /\ Head(t) \in Punctuation THEN lstrip(Tail(t)) ELSE t

RECURSIVE rstrip(_)
rstrip(t) ==
    IF t # <<>> /\ t[Len(t)] \in Punctuation
    THEN rstrip(SubSeq(t, 1, Len(t) - 1)) ELSE t

\* string.strip(' ,.?!";').replace('\n', '').replace('.', '')
strip_word(string) ==
    SelectSeq(rstrip(lstrip(string)), LAMBDA c : c \notin {"\n", "."})

\* [err, ret] of get_word_at_index(index): ret is <<shard id, word>>, for
\* the code's (f'{key}.txt', string), or None when no shard's range holds
\* the index and the loop over the keys ends without a return.
get_word_at_index(w, index) ==
    LET keys == get_shard_ids(w.mapping)
        hits == {i \in 1..Len(keys) :
                    /\ index >= w.mapping[keys[i]].start
                    /\ index <= w.mapping[keys[i]].end}
    IN  IF keys = <<>> THEN [err |-> "ValueError", ret |-> None]  \* max([])
        ELSE IF hits = {} THEN [err |-> NoErr, ret |-> None]
        ELSE LET key == keys[CHOOSE i \in hits : \A j \in hits : i <= j]
                 largest_key == Max({k[1] : k \in Primaries(w.mapping)})
             IN  IF key \notin DOMAIN w.files
                 THEN [err |-> "FileNotFoundError", ret |-> None]
                 ELSE LET t == w.files[key]
                          new_index ==
                              skip_punctuation(t, index - w.mapping[key].start)
                          before_index == expand_before(t, new_index)
                          after_index == expand_after(t, new_index)
                          before_string ==
                              IF before_index = 0
                              THEN from_previous_file(w.files, <<key[1] - 1, 0>>)
                              ELSE [err |-> NoErr, string |-> <<>>]
                          after_string ==
                              IF after_index = Len(t) - 1 /\ key[1] # largest_key
                              THEN from_following_file(w.files, <<key[1] + 1, 0>>)
                              ELSE [err |-> NoErr, string |-> <<>>]
                      IN  IF new_index = -1
                          THEN [err |-> "IndexError", ret |-> None]
                          ELSE IF before_string.err # NoErr
                          THEN [err |-> before_string.err, ret |-> None]
                          ELSE IF after_string.err # NoErr
                          THEN [err |-> after_string.err, ret |-> None]
                          ELSE [err |-> NoErr,
                                ret |-> <<key[1],
                                          strip_word(
                                              before_string.string
                                              \o SubSeq(t, before_index + 1,
                                                        after_index + 1)
                                              \o after_string.string)>>]

-----------------------------------------------------------------------------
(* The state machine. *)

\* The handler and the disk as a world at the start of a call.
Here(r) ==
    [has_dir |-> data_dir, files |-> files, mapfile |-> mapfile,
     mapping |-> mapping, lcp |-> last_char_position,
     rl |-> replication_level, err |-> NoErr, ret |-> NoErr,
     rec |-> r, trace |-> <<>>]

\* The call named name, given a, ended in world w and returned r.
Returns(w, name, a, r) ==
    /\ data_dir' = w.has_dir
    /\ files' = w.files
    /\ mapfile' = w.mapfile
    /\ mapping' = w.mapping
    /\ last_char_position' = w.lcp
    /\ replication_level' = w.rl
    /\ op' = name
    /\ result' = IF w.err # NoErr THEN w.err ELSE w.ret
    /\ missing_before' = Cardinality(Primaries(mapping) \ DOMAIN files)
    /\ arg' = a
    /\ returned' = r
    /\ resync' = (name = "sync_replication" /\ op = "sync_replication"
                                            /\ result = NoErr)
    /\ text' = text

\* The call named name ended in world w.
Becomes(w, name) == Returns(w, name, 0, None)

\* s = ShardHandler() in a directory without mapping.json and data/
InitWith(texts) ==
    /\ text \in texts
    /\ data_dir = FALSE
    /\ files = Empty
    /\ mapfile = Empty
    /\ mapping = Empty
    /\ last_char_position = 0
    /\ replication_level = 0
    /\ op = "init"
    /\ result = NoErr
    /\ missing_before = 0
    /\ arg = 0
    /\ returned = None
    /\ resync = FALSE

NumShards == Cardinality(Primaries(mapfile))

BuildShards(maxCount) ==
    \E count \in 1..maxCount :
        \E w \in build_shards(Here(FALSE), count, text) :
            Becomes(w, "build_shards")

AddShard(maxShards) ==
    /\ NumShards < maxShards
    /\ \E w \in add_shard(Here(FALSE)) : Becomes(w, "add_shard")

RemoveShard ==
    \E w \in remove_shard(Here(FALSE)) : Becomes(w, "remove_shard")

AddReplication(maxLevel) ==
    /\ replication_level < maxLevel
    /\ \E w \in add_replication(Here(FALSE)) : Becomes(w, "add_replication")

RemoveReplication ==
    \E w \in remove_replication(Here(FALSE)) :
        Becomes(w, "remove_replication")

SyncReplication ==
    \E w \in sync_replication(Here(FALSE)) : Becomes(w, "sync_replication")

\* Somebody removes blobs from data/ behind the handler's back.
DeleteBlobs ==
    \E gone \in (SUBSET DOMAIN files) \ {{}} :
        /\ Cardinality((DOMAIN mapfile) \ ((DOMAIN files) \ gone)) <= MaxMissing
        /\ files' = [k \in (DOMAIN files) \ gone |-> files[k]]
        /\ op' = "delete_blobs"
        /\ result' = NoErr
        /\ missing_before' = Cardinality(Primaries(mapping) \ DOMAIN files)
        /\ resync' = FALSE
        /\ UNCHANGED <<text, data_dir, mapfile, mapping, last_char_position,
                       replication_level, arg, returned>>

\* Every entry of mapping.json has its blob and every blob its entry, the
\* primaries are 0..N-1, each has its replica at each level with the same
\* boundaries and content, and the primaries in numeric order give the text.
Consistent ==
    LET ids == {k[1] : k \in Primaries(mapping)}
        blobs == [i \in 1..Cardinality(ids) |-> files[<<i - 1, 0>>]]
    IN  /\ mapping = mapfile
        /\ DOMAIN files = DOMAIN mapping
        /\ ids # {} /\ ids = 0..(Cardinality(ids) - 1)
        /\ replication_level = find_highest_replication_level(mapping)
        /\ Replicas(mapping) = {<<i, l>> : i \in ids, l \in 1..replication_level}
        /\ \A k \in Replicas(mapping) :
               /\ mapping[k] = mapping[<<k[1], 0>>]
               /\ files[k] = files[<<k[1], 0>>]
        /\ Concat(blobs) = text

\* The calls that can be cut short, with every write recorded.
Interruptible(maxShards, maxLevel) ==
    LET w == Here(TRUE)
    IN  (IF NumShards < maxShards THEN add_shard(w) ELSE {})
        \cup remove_shard(w)
        \cup (IF replication_level < maxLevel THEN add_replication(w) ELSE {})
        \cup remove_replication(w)

\* A call on a consistent system stops right after one of its writes (the
\* process dies), and a new ShardHandler() is constructed on what is on disk.
Crash(maxShards, maxLevel) ==
    /\ Consistent
    /\ \E w \in Interruptible(maxShards, maxLevel) :
           \E n \in 1..Len(w.trace) :
               /\ files' = w.trace[n].files
               /\ mapfile' = w.trace[n].mapfile
               /\ mapping' = w.trace[n].mapfile       \* self.load_map()
               /\ last_char_position' = 0
               /\ replication_level' =
                      find_highest_replication_level(w.trace[n].mapfile)
    /\ op' = "crash"
    /\ result' = NoErr
    /\ missing_before' = 0
    /\ resync' = FALSE
    /\ UNCHANGED <<text, data_dir, arg, returned>>

Init == InitWith(Texts)

Next ==
    \/ BuildShards(MaxBuildCount)
    \/ AddShard(MaxShards)
    \/ RemoveShard
    \/ AddReplication(MaxLevel)
    \/ RemoveReplication
    \/ SyncReplication

Spec == Init /\ [][Next]_vars

\* The same handler on a disk that loses blobs between calls.
InitDamage == InitWith(DmgTexts)

NextDamage ==
    \/ BuildShards(DmgMaxBuildCount)
    \/ AddShard(DmgMaxShards)
    \/ RemoveShard
    \/ AddReplication(DmgMaxLevel)
    \/ RemoveReplication
    \/ SyncReplication
    \/ DeleteBlobs

SpecDamage == InitDamage /\ [][NextDamage]_vars

\* _generate_sharded_data(count, text) called on its own.
GenerateShardedData ==
    \E count \in (-LkMaxNegCount)..LkMaxCount :
        /\ op' = "_generate_sharded_data"
        /\ arg' = count
        /\ result' = IF count = 0 THEN "ZeroDivisionError" ELSE NoErr
        /\ returned' = IF count = 0 THEN None
                       ELSE generate_sharded_data(count, text)
        /\ resync' = FALSE
        /\ UNCHANGED <<text, data_dir, files, mapfile, mapping,
                       last_char_position, replication_level, missing_before>>

\* build_shards(count, text) with any count, positive or not.
BuildShardsAnyCount ==
    \E count \in (-LkMaxNegCount)..LkMaxCount :
        \E w \in build_shards(Here(FALSE), count, text) :
            Returns(w, "build_shards", count, None)

GetWordAtIndex ==
    \E index \in (-1)..(LkMaxLen + 1) :
        LET r == get_word_at_index(Here(FALSE), index)
        IN  /\ op' = "get_word_at_index"
            /\ arg' = index
            /\ result' = r.err
            /\ returned' = r.ret
            /\ resync' = FALSE
            /\ UNCHANGED <<text, data_dir, files, mapfile, mapping,
                           last_char_position, replication_level,
                           missing_before>>

\* The splitter and the lookup engine on every short text.
InitLookup == InitWith(LookupTexts)

NextLookup ==
    \/ GenerateShardedData
    \/ BuildShardsAnyCount
    \/ GetWordAtIndex

SpecLookup == InitLookup /\ [][NextLookup]_vars

\* The same handler with calls that are cut short.
NextCrash ==
    \/ BuildShards(DmgMaxBuildCount)
    \/ AddShard(DmgMaxShards)
    \/ RemoveShard
    \/ AddReplication(DmgMaxLevel)
    \/ RemoveReplication
    \/ SyncReplication
    \/ Crash(DmgMaxShards, DmgMaxLevel)

SpecCrash == InitDamage /\ [][NextCrash]_vars

-----------------------------------------------------------------------------
(* What the claims speak of. *)

Rebalances == {"build_shards", "add_shard", "remove_shard"}

\* The last call was one of ops and returned normally.
Completed(ops) == op \in ops /\ result = NoErr

PrimaryIds(f) == {k[1] : k \in Primaries(f)}

\* S is {0, ..., N-1} for some N >= 1
Dense(S) == S # {} /\ S = 0..(Cardinality(S) - 1)

\* The primary blobs joined in ascending numeric shard-id order.
NumericConcat ==
    LET ids == PrimaryIds(files)
    IN  IF ids = {} THEN <<>>
        ELSE Concat([i \in 1..(Max(ids) + 1) |->
                        IF <<i - 1, 0>> \in DOMAIN files
                        THEN files[<<i - 1, 0>>] ELSE <<>>])

\* f and g agree on the keys of K
SameOn(f, g, K) ==
    /\ K \subseteq DOMAIN f
    /\ K \subseteq DOMAIN g
    /\ \A k \in K : f[k] = g[k]

-----------------------------------------------------------------------------
\* C1: after build_shards and any add_shard / remove_shard calls that
\* returned, load_data_from_shards() gives the original text, and so do the
\* primary blobs joined in ascending numeric id order.
C1_LosslessRebalance ==
    Completed(Rebalances) =>
        /\ load_data_from_shards(Here(FALSE)).err = NoErr
        /\ load_data_from_shards(Here(FALSE)).data = text
        /\ NumericConcat = text

\* C3: after a completed build_shards, add_shard or remove_shard the primary
\* mapping keys and the primary blob names are both {0..N-1}, N >= 1; add_shard
\* takes N to N+1 and remove_shard takes N to N-1.
C3_Step ==
    (op' \in Rebalances /\ result' = NoErr) =>
        /\ Dense(PrimaryIds(mapping'))
        /\ PrimaryIds(files') = PrimaryIds(mapping')
        /\ PrimaryIds(mapfile') = PrimaryIds(mapping')
        /\ op' = "add_shard" =>
               Cardinality(Primaries(mapping')) = Cardinality(Primaries(mapping)) + 1
        /\ op' = "remove_shard" =>
               Cardinality(Primaries(mapping')) = Cardinality(Primaries(mapping)) - 1

C3_DenseRenumbering == [][C3_Step]_vars

\* C3 witness: shards were added past ten and one was removed again.
C3_Witness ==
    /\ Completed({"remove_shard"})
    /\ Cardinality(Primaries(mapping)) = 11
    /\ replication_level >= 1

\* C4: after a completed build_shards, add_shard or remove_shard, shard 0
\* starts at 0 and every shard starts right after the end of the one before.
C4_Contiguous ==
    Completed(Rebalances) =>
        /\ <<0, 0>> \in DOMAIN mapping /\ mapping[<<0, 0>>].start = 0
        /\ \A i \in PrimaryIds(mapping) :
               <<i + 1, 0>> \in DOMAIN mapping =>
                   mapping[<<i, 0>>].end + 1 = mapping[<<i + 1, 0>>].start

\* C5: after a completed build_shards, add_shard or remove_shard, the
\* characters start..end (inclusive) of the text are the shard's blob.
C5_BoundariesMatchContent ==
    Completed(Rebalances) =>
        \A k \in Primaries(mapping) :
            /\ k \in DOMAIN files
            /\ mapping[k].end < Len(text)
            /\ files[k] = SubSeq(text, mapping[k].start + 1, mapping[k].end + 1)

\* C8: a completed add_replication raises the level by one and gives every
\* primary i exactly one new replica, i-(L+1), with the primary's content and
\* boundaries; every other blob and entry stays as it was.
C8_Step ==
    (op' = "add_replication" /\ result' = NoErr) =>
        LET new == {<<i, replication_level + 1>> : i \in PrimaryIds(mapping)}
        IN  /\ replication_level' = replication_level + 1
            /\ DOMAIN files' = DOMAIN files \cup new
            /\ DOMAIN mapping' = DOMAIN mapping \cup new
            /\ new \cap (DOMAIN files \cup DOMAIN mapping) = {}
            /\ \A k \in new : /\ files'[k] = files[<<k[1], 0>>]
                              /\ mapping'[k] = mapping[<<k[1], 0>>]
            /\ SameOn(files', files, DOMAIN files)
            /\ SameOn(mapping', mapping, DOMAIN mapping)
            /\ mapfile' = mapping'

C8_AddReplication == [][C8_Step]_vars

\* C8 witness: a second level was added to more than ten shards.
C8_Witness ==
    /\ Completed({"add_replication"})
    /\ replication_level = 2
    /\ Cardinality(Primaries(mapping)) >= 11

\* C9: a completed remove_replication lowers the level by one, leaves no
\* entry and no blob of a higher level, and leaves the primaries and the
\* replicas of the levels below as they were.
C9_Step ==
    (op' = "remove_replication" /\ result' = NoErr) =>
        LET keep(f) == {k \in DOMAIN f : k[2] <= replication_level - 1}
        IN  /\ replication_level >= 1
            /\ replication_level' = replication_level - 1
            /\ DOMAIN files' = keep(files)
            /\ DOMAIN mapping' = keep(mapping)
            /\ SameOn(files', files, keep(files))
            /\ SameOn(mapping', mapping, keep(mapping))
            /\ mapfile' = mapping'

C9_RemoveReplication == [][C9_Step]_vars

\* C9 witness: the second of two levels was removed.
C9_Witness ==
    /\ Completed({"remove_replication"})
    /\ replication_level = 1
    /\ \E k \in DOMAIN files : k[2] = 1

\* C10: remove_shard with one primary shard raises 'Cannot remove last shard'
\* and leaves the handler's mapping, mapping.json and every blob as they were.
C10_Step ==
    (op' = "remove_shard" /\ Cardinality(Primaries(mapping)) = 1) =>
        /\ result' = "Cannot remove last shard"
        /\ UNCHANGED <<files, mapfile, mapping, replication_level>>

C10_LastShardKept == [][C10_Step]_vars

\* C10 witness: the call was refused on a single shard that has replicas.
C10_Witness ==
    /\ op = "remove_shard"
    /\ result = "Cannot remove last shard"
    /\ Cardinality(Primaries(mapping)) = 1
    /\ replication_level >= 1

-----------------------------------------------------------------------------
Syncing == {"sync_replication", "add_shard", "remove_shard",
            "add_replication", "remove_replication"}

\* Replica <<i, l>> has primary i's entry and primary i's content.
Mirrors(i, l) ==
    /\ <<i, 0>> \in DOMAIN mapping /\ <<i, l>> \in DOMAIN mapping
    /\ <<i, 0>> \in DOMAIN files /\ <<i, l>> \in DOMAIN files
    /\ mapping[<<i, l>>] = mapping[<<i, 0>>]
    /\ files[<<i, l>>] = files[<<i, 0>>]

\* C2: after every sync_replication() that returns (alone or as the last step
\* of add_shard, remove_shard, add_replication, remove_replication), every
\* primary i has at every level 1..replication_level an entry and a blob
\* with the primary's boundaries and content.
C2_ReplicaFidelity ==
    Completed(Syncing) =>
        \A i \in PrimaryIds(mapping) :
            \A l \in 1..replication_level : Mirrors(i, l)

\* C2 witness: a sync with replicas that began with a primary blob missing.
C2_Witness ==
    /\ Completed(Syncing)
    /\ replication_level >= 1
    /\ missing_before >= 1
    /\ Cardinality(Primaries(mapping)) >= 2

\* The state a consistent system with replicas is in after some of its
\* primary blobs (maybe all) were deleted: the mapping and every replica
\* blob are as they were.
PrimariesDeleted ==
    LET ids == PrimaryIds(mapping)
        wanted == {<<i, l>> : i \in ids, l \in 1..replication_level}
    IN  /\ replication_level >= 1
        /\ mapfile = mapping
        /\ Dense(ids)
        /\ Replicas(mapping) = wanted
        /\ Replicas(files) = wanted
        /\ Primaries(files) \subseteq Primaries(mapping)
        /\ Primaries(files) # Primaries(mapping)
        /\ \A k \in wanted :
               /\ mapping[k] = mapping[<<k[1], 0>>]
               /\ files[k] = files[<<k[1], 1>>]
               /\ <<k[1], 0>> \in DOMAIN files => files[k] = files[<<k[1], 0>>]

\* C7: from such a state sync_replication() returns without raising, for
\* every listing order, and leaves one primary blob per primary key.
C7_Step ==
    (PrimariesDeleted /\ op' = "sync_replication") =>
        /\ result' = NoErr
        /\ primary_files_okay([files |-> files', mapping |-> mapping'])
        /\ PrimaryIds(files') = PrimaryIds(mapping)

-----------------------------------------------------------------------------
\* C6: when add_shard, remove_shard, add_replication or remove_replication
\* on a consistent system is cut short after one of its writes, the next
\* sync_replication() of a new handler returns and the system has dense
\* primary ids, faithful replicas at every level and primaries that join to
\* the original text.
C6_Step ==
    (op = "crash" /\ op' = "sync_replication") =>
        /\ result' = NoErr
        /\ Dense(PrimaryIds(mapping'))
        /\ PrimaryIds(files') = PrimaryIds(mapping')
        /\ \A k \in Primaries(mapping') :
               \A l \in 1..replication_level' :
                   /\ <<k[1], l>> \in DOMAIN mapping' \cap DOMAIN files'
                   /\ mapping'[<<k[1], l>>] = mapping'[k]
                   /\ files'[<<k[1], l>>] = files'[k]
        /\ Concat([i \in 1..Cardinality(Primaries(files')) |->
                      files'[<<i - 1, 0>>]]) = text

C6_CrashSelfHealing == [][C6_Step]_vars

-----------------------------------------------------------------------------
\* A built system without replicas: the handler's mapping is mapping.json,
\* every entry has its blob and every blob its entry, the primaries are
\* 0..N-1 and the level is 0.
ConsistentAtLevelZero ==
    /\ mapping = mapfile
    /\ DOMAIN files = DOMAIN mapping
    /\ Dense(PrimaryIds(mapping))
    /\ Replicas(mapping) = {}
    /\ replication_level = 0

\* C11: remove_replication() on a consistent system at level 0 raises 'No
\* replication levels to remove.' and leaves the level at 0 and the mapping,
\* mapping.json and every blob as they were.
C11_Step ==
    (ConsistentAtLevelZero /\ op' = "remove_replication") =>
        /\ result' = "No replication levels to remove."
        /\ replication_level' = 0
        /\ UNCHANGED <<files, mapfile, mapping>>

C11_NothingToRemove == [][C11_Step]_vars

\* C11 witness: the call was refused on several shards without replicas.
C11_Witness ==
    /\ op = "remove_replication"
    /\ result = "No replication levels to remove."
    /\ ConsistentAtLevelZero
    /\ Cardinality(Primaries(mapping)) >= 2

\* C12: a sync_replication() made right after a sync_replication() that
\* returned also returns, and leaves the mapping, mapping.json and every blob
\* as the first call left them.
C12_Step ==
    (op = "sync_replication" /\ result = NoErr /\ op' = "sync_replication") =>
        /\ result' = NoErr
        /\ UNCHANGED <<files, mapfile, mapping>>

C12_SyncIdempotent == [][C12_Step]_vars

\* C12 witness: a second sync in a row on a system that has replicas.
C12_Witness ==
    /\ resync
    /\ result = NoErr
    /\ replication_level >= 1
    /\ Cardinality(Primaries(mapping)) >= 2

\* C13: for count >= 1, _generate_sharded_data(count, text) returns count
\* slices that join to the text; all but the last are floor(len / count) long
\* and the last holds the len mod count trailing characters as well.
C13_SplitRoundTrip ==
    (op = "_generate_sharded_data" /\ arg >= 1) =>
        /\ result = NoErr
        /\ Len(returned) = arg
        /\ Concat(returned) = text
        /\ \A z \in 1..(arg - 1) : Len(returned[z]) = Len(text) \div arg
        /\ Len(returned[arg]) = (Len(text) \div arg) + (Len(text) % arg)

\* C13 witness: a text was split into more slices than it has characters.
C13_Witness ==
    /\ op = "_generate_sharded_data"
    /\ result = NoErr
    /\ Len(text) >= 1
    /\ arg > Len(text)

\* C14: with a count <= 0, _generate_sharded_data fails instead of returning
\* slices, and build_shards on an empty mapping fails and writes no shard and
\* no mapping.
C14_Step ==
    /\ (op' = "_generate_sharded_data" /\ arg' <= 0) => result' # NoErr
    /\ (op' = "build_shards" /\ arg' <= 0 /\ mapping = Empty) =>
           /\ result' # NoErr
           /\ UNCHANGED <<files, mapfile, mapping>>

C14_NonPositiveCountRejected == [][C14_Step]_vars

\* The index lies in the [start, end] range of some primary shard.
InSomeRange(index) ==
    \E k \in Primaries(mapping) :
        index >= mapping[k].start /\ index <= mapping[k].end

\* C15: get_word_at_index(index) fails for every index that lies in no
\* primary shard's range, and an index it answers is a position of the text.
C15_InvalidIndexRejected ==
    op = "get_word_at_index" =>
        /\ ~InSomeRange(arg) => result # NoErr
        /\ (result = NoErr /\ returned # None) => arg \in 0..(Len(text) - 1)

RECURSIVE LenBefore(_)
\* The number of characters in the primary blobs 0..i-1.
LenBefore(i) == IF i = 0 THEN 0 ELSE LenBefore(i - 1) + Len(files[<<i - 1, 0>>])

\* The primary blob that holds position p (from 0) of the text.
ShardAt(p) ==
    CHOOSE i \in PrimaryIds(files) :
        LenBefore(i) <= p /\ p < LenBefore(i) + Len(files[<<i, 0>>])

\* The first and last position (from 1) of the run of non-space characters
\* of t around position i.
RunStart(t, i) == CHOOSE s \in 1..i :
    /\ \A j \in s..i : t[j] # " "
    /\ s = 1 \/ t[s - 1] = " "

RunEnd(t, i) == CHOOSE e \in i..Len(t) :
    /\ \A j \in i..e : t[j] # " "
    /\ e = Len(t) \/ t[e + 1] = " "

\* The word of the unsplit text t at index (from 0), trimmed as the lookup
\* trims what it returns.
WordAt(t, index) ==
    strip_word(SubSeq(t, RunStart(t, index + 1), RunEnd(t, index + 1)))

\* The last call looked up a letter of a text built into two or more
\* shards, in a word that lies in one shard or in two adjacent ones.
LooksUpWord ==
    /\ op = "get_word_at_index"
    /\ Cardinality(Primaries(mapping)) >= 2
    /\ arg \in 0..(Len(text) - 1)
    /\ text[arg + 1] \notin Punctuation
    /\ ShardAt(RunEnd(text, arg + 1) - 1)
           - ShardAt(RunStart(text, arg + 1) - 1) <= 1

\* C16: such a lookup returns the word the unsplit text has at the index.
C16_BoundaryWord ==
    LooksUpWord =>
        /\ result = NoErr
        /\ returned # None
        /\ returned[2] = WordAt(text, arg)

\* C17: build_shards on a non-empty mapping returns the advisory string and
\* writes no blob and leaves the mapping, mapping.json and the level alone.
C17_Step ==
    (op' = "build_shards" /\ mapping # Empty) =>
        /\ result' = Advisory
        /\ UNCHANGED <<data_dir, files, mapfile, mapping, replication_level,
                       last_char_position>>

C17_BuildOnceOnly == [][C17_Step]_vars

\* C17 witness: the advisory was returned on a system with replicas.
C17_Witness ==
    /\ op = "build_shards"
    /\ result = Advisory
    /\ replication_level >= 1
    /\ Cardinality(Primaries(mapping)) >= 2

-----------------------------------------------------------------------------
\* C18: a primary blob that sync_replication() creates gets the content of
\* a replica blob of the same shard id, whatever order os.listdir gives.
C18_Step ==
    (op' = "sync_replication") =>
        \A k \in Primaries(files') \ Primaries(files) :
            \E r \in Replicas(files) : r[1] = k[1] /\ files'[k] = files[r]

C18_RestoresFromOwnReplica == [][C18_Step]_vars

\* C19: when sync_replication() finds the primaries not okay and cannot heal
\* them, the exception is 'Missing files cannot be recoved' and no other.
C19_Step ==
    (/\ op' = "sync_replication"
     /\ data_dir
     /\ ~primary_files_okay(Here(FALSE))
     /\ result' # NoErr) =>
        result' = "Missing files cannot be recoved"

C19_UnrecoverableReported == [][C19_Step]_vars

\* C20: once shards are built, the blobs on disk are the mapping keys, the
\* primaries are 0..N-1, the replica keys are i-l for every primary i and
\* level l in 1..replication_level, and replication_level is the highest
\* level of a mapping key.
C20_NoOrphans ==
    mapping # Empty =>
        /\ DOMAIN files = DOMAIN mapping
        /\ Dense(PrimaryIds(mapping))
        /\ Replicas(mapping) =
               {<<i, l>> : i \in PrimaryIds(mapping), l \in 1..replication_level}
        /\ replication_level = find_highest_replication_level(mapping)

\* C20 witness: a shard was removed from a system with two levels of replicas
\* and more than ten shards.
C20_Witness ==
    /\ Completed({"remove_shard"})
    /\ replication_level = 2
    /\ Cardinality(Primaries(mapping)) >= 10

=============================================================================
